---- MODULE Spec2Model ----
(***************************************************************************)
(* Model of exifgpsproperty.py: the coordinate codec (gps_str2float,       *)
(* gps_float2str) and the property-page provider ExifGpsProperty with its  *)
(* Configuration.                                                          *)
(*                                                                         *)
(* Texts are sequences of one-character strings.  A Python float is an     *)
(* exact rational [int, num, den] meaning int + num/den with               *)
(* 0 <= num < den in lowest terms; binary rounding of floats is not        *)
(* modelled.  Every product is arranged to stay inside TLC's 32-bit        *)
(* integers.                                                               *)
(***************************************************************************)
EXTENDS Integers, Sequences, FiniteSets, TLC

VARIABLES
    codec_op,          \* which codec function was applied: "idle", "decoded", "encoded", "roundtrip"
    codec_text,        \* the text handed to gps_str2float
    codec_value,       \* the float handed to gps_float2str
    codec_result,      \* what the function returned
    disk,              \* per file: the GPS tags stored in it and whether Exiv2 can write its format
    config_file,       \* exifgpsproperty.ini: the texts of latitude and longitude in section gps
    previous_position, \* self.config.previous_position
    meta,              \* self.meta: the metadata object of the last image loaded alone
    original_position, \* self.original_position
    elements,          \* self.elements: the number of the PropertyPage it refers to, 0 for None
    pages              \* the PropertyPage objects built so far, one per session, in order

codec_vars == <<codec_op, codec_text, codec_value, codec_result>>

provider_vars == <<disk, config_file, previous_position, meta, original_position, elements, pages>>

vars == <<codec_op, codec_text, codec_value, codec_result,
          disk, config_file, previous_position, meta, original_position, elements, pages>>

----------------------------------------------------------------------------
(* Exact arithmetic standing for Python's float arithmetic *)

RECURSIVE GCD(_, _)
GCD(a, b) == IF b = 0 THEN a ELSE GCD(b, a % b)

\* int + num/den brought to lowest terms with 0 <= num < den
RNorm(w, n, d) ==
    LET r == n % d
        g == GCD(d, r)
    IN  [int |-> w + (n \div d), num |-> r \div g, den |-> d \div g]

RInt(k) == [int |-> k, num |-> 0, den |-> 1]

Zero == RInt(0)

\* float(a) / float(b) for b > 0
FloatDiv(a, b) == RNorm(0, a, b)

\* x / k for an integer k > 0
RDivInt(x, k) ==
    LET q == x.int \div k
        s == x.int % k
    IN  RNorm(q, s * x.den + x.num, x.den * k)

RAdd(x, y) ==
    LET g == GCD(x.den, y.den)
        l == (x.den \div g) * y.den
    IN  RNorm(x.int + y.int, x.num * (l \div x.den) + y.num * (l \div y.den), l)

RNeg(x) ==
    IF x.num = 0 THEN RInt(-x.int)
    ELSE [int |-> -x.int - 1, num |-> x.den - x.num, den |-> x.den]

RIsNeg(x) == x.int < 0

RAbs(x) == IF RIsNeg(x) THEN RNeg(x) ELSE x

RSub(x, y) == RAdd(x, RNeg(y))

RLess(x, y) ==
    LET g == GCD(x.den, y.den)
        l == (x.den \div g) * y.den
    IN  \/ x.int < y.int
        \/ x.int = y.int /\ x.num * (l \div x.den) < y.num * (l \div y.den)

RLeq(x, y) == x = y \/ RLess(x, y)

RMin(x, y) == IF RLess(y, x) THEN y ELSE x

RMax(x, y) == IF RLess(x, y) THEN y ELSE x

\* floor(r * k / d) for 0 <= r < d
MulFloor(r, k, d) ==
    LET g == GCD(k, d)
    IN  (r * (k \div g)) \div (d \div g)

\* x * k for an integer k > 0
RMulInt(x, k) ==
    LET g == GCD(k, x.den)
    IN  RNorm(x.int * k, x.num * (k \div g), x.den \div g)

\* int(x): Python truncates toward zero
Trunc(x) == IF x.int >= 0 \/ x.num = 0 THEN x.int ELSE x.int + 1

\* int(x * k) % m for x >= 0 and k a multiple of m.  The whole part of x
\* contributes x.int * k, a multiple of m, and is dropped before the
\* product is formed.
TruncScaledMod(x, k, m) == MulFloor(x.num, k, x.den) % m

----------------------------------------------------------------------------
(* Texts *)

Digits == <<"0", "1", "2", "3", "4", "5", "6", "7", "8", "9">>

IsDigit(c) == \E i \in 1..10 : Digits[i] = c

DigitVal(c) == (CHOOSE i \in 1..10 : Digits[i] = c) - 1

\* float(<digits>): the number a run of decimal digits denotes
RECURSIVE DigitsVal(_)
DigitsVal(s) ==
    IF s = <<>> THEN 0
    ELSE DigitsVal(SubSeq(s, 1, Len(s) - 1)) * 10 + DigitVal(s[Len(s)])

RECURSIVE NatText(_)
NatText(k) ==
    IF k < 10 THEN <<Digits[k + 1]>>
    ELSE NatText(k \div 10) \o <<Digits[(k % 10) + 1]>>

\* "%d" % k
IntText(k) == IF k < 0 THEN <<"-">> \o NatText(-k) ELSE NatText(k)

----------------------------------------------------------------------------
(* search(r'^(\d+)/(\d+) (\d+)/(\d+) (\d+)/(\d+)$', value) *)

\* the result of a search that found nothing (Python's None)
None == <<>>

\* the index just after the longest run of digits that starts at i (\d+ is greedy)
RECURSIVE SpanEnd(_, _)
SpanEnd(s, i) == IF i <= Len(s) /\ IsDigit(s[i]) THEN SpanEnd(s, i + 1) ELSE i

\* "$" without re.MULTILINE: the end of the text, or just before a final line feed
AtDollar(s, i) == i = Len(s) + 1 \/ (i = Len(s) /\ s[i] = "\n")

\* a digit run, then each separator followed by a digit run, then "$".  A
\* shorter run can never help: the character after it would be a digit.
RECURSIVE MatchFrom(_, _, _, _)
MatchFrom(s, i, seps, groups) ==
    LET e == SpanEnd(s, i)
        g == Append(groups, SubSeq(s, i, e - 1))
    IN  IF e = i THEN None
        ELSE IF seps = <<>> THEN (IF AtDollar(s, e) THEN g ELSE None)
        ELSE IF e <= Len(s) /\ s[e] = Head(seps)
             THEN MatchFrom(s, e + 1, Tail(seps), g)
             ELSE None

search(value) == MatchFrom(value, 1, <<"/", " ", "/", " ", "/">>, <<>>)

----------------------------------------------------------------------------
(* The codec *)

gps_str2float(value) ==
    LET dms == search(value)
    IN  IF dms = None THEN Zero                 \* AttributeError
        ELSE LET vdg == DigitsVal(dms[1])
                 ddg == DigitsVal(dms[2])
                 vmi == DigitsVal(dms[3])
                 dmi == DigitsVal(dms[4])
                 vse == DigitsVal(dms[5])
                 dse == DigitsVal(dms[6])
             IN  IF ddg = 0 \/ dmi = 0 \/ dse = 0 THEN Zero   \* ZeroDivisionError
                 ELSE LET degree == FloatDiv(vdg, ddg)
                          minute == FloatDiv(vmi, dmi)
                          second == FloatDiv(vse, dse)
                      IN  RAdd(RAdd(degree, RDivInt(minute, 60)), RDivInt(second, 3600))

\* gps_float2str with the seconds taken from value instead of abs(value)
gps_float2str_signed(value) ==
    LET degree == Trunc(value)
        minute == Trunc(RMulInt(value, 60)) % 60
        scaled == TruncScaledMod(RAbs(value), 3600 * 6000, 60 * 6000)
        second == IF RIsNeg(value) THEN (-scaled) % (60 * 6000) ELSE scaled
    IN  IntText(degree) \o <<"/", "1", " ">> \o IntText(minute) \o <<"/", "1", " ">>
            \o IntText(second) \o <<"/", "6", "0", "0", "0">>

gps_float2str(value) ==
    LET degree == Trunc(value)
        minute == Trunc(RMulInt(value, 60)) % 60
        second == TruncScaledMod(RAbs(value), 3600 * 6000, 60 * 6000)
    IN  IntText(degree) \o <<"/", "1", " ">> \o IntText(minute) \o <<"/", "1", " ">>
            \o IntText(second) \o <<"/", "6", "0", "0", "0">>

----------------------------------------------------------------------------
(* Inputs of the codec *)

\* how many of the listed numerators, denominators and fractions are drawn
MaxNumerators == 4
MaxDenominators == 3
MaxFractions == 7

NumeratorList == <<0, 49, -49, 7, 30, 59>>
DenominatorList == <<1, 0, 6000, 2, 7>>

Numerators == {NumeratorList[i] : i \in 1..MaxNumerators} 
Denominators == {DenominatorList[i] : i \in 1..MaxDenominators}

Pair(n, d) == IntText(n) \o <<"/">> \o IntText(d)

Triple(n, d) == Pair(n[1], d[1]) \o <<" ">> \o Pair(n[2], d[2]) \o <<" ">> \o Pair(n[3], d[3])

Variants == {"plain", "newline", "newlines", "space", "lead", "letter"}

Vary(s, kind) ==
    CASE kind = "plain" -> s
      [] kind = "newline" -> s \o <<"\n">>
      [] kind = "newlines" -> s \o <<"\n", "\n">>
      [] kind = "space" -> s \o <<" ">>
      [] kind = "lead" -> <<" ">> \o s
      [] kind = "letter" -> s \o <<"x">>

TextInputs ==
    {<<>>, <<"4", "9">>, <<"4", "9", "/", "1", " ", "5", "0", "/", "1">>}
    \cup {Vary(Triple(n, d), k) :
            n \in Numerators \X {0, 30} \X {0, 7},
            d \in Denominators \X {1, 0} \X Denominators,
            k \in Variants}

WholeDegrees == {0, 1, 49, 89, 179}

FractionList == <<<<0, 1>>, <<1, 2>>, <<1, 7>>, <<59, 60>>, <<1, 60>>, <<6, 7>>, <<1, 97>>, <<2, 3>>>>

ValueInputs ==
    LET pos == {RNorm(w, FractionList[i][1], FractionList[i][2]) :
                    w \in WholeDegrees, i \in 1..MaxFractions}
    IN  pos \cup {RNeg(x) : x \in pos}

----------------------------------------------------------------------------
(* The files, the configuration file and the map widget *)

\* meta[tag] raises KeyError: the file has no such tag
NoTag == <<"no tag">>

Dms(d, m, s6000) == Triple(<<d, m, s6000>>, <<1, 1, 6000>>)

FileNames == {"north.jpg", "south.jpg", "bare.jpg", "half.jpg", "raw.crw", "bad.jpg", "far.jpg"}

InitialDisk ==
    [f \in FileNames |->
        CASE f = "north.jpg" -> [lat |-> Dms(10, 0, 0), lon |-> Dms(10, 0, 0), writable |-> TRUE]
          [] f = "south.jpg" -> [lat |-> Dms(20, 0, 0), lon |-> Dms(20, 30, 0), writable |-> TRUE]
          [] f = "bare.jpg" -> [lat |-> NoTag, lon |-> NoTag, writable |-> TRUE]
          [] f = "half.jpg" -> [lat |-> Dms(30, 0, 0), lon |-> NoTag, writable |-> TRUE]
          [] f = "raw.crw" -> [lat |-> Dms(49, 50, 23546), lon |-> Dms(1, 2, 3), writable |-> FALSE]
          [] f = "bad.jpg" -> [lat |-> Triple(<<0, 0, 0>>, <<0, 1, 1>>), lon |-> Dms(0, 0, 0),
                               writable |-> TRUE]
          [] f = "far.jpg" -> [lat |-> Dms(600, 0, 0), lon |-> Dms(10, 0, 0), writable |-> TRUE]]

\* what Nautilus hands to get_property_pages: files, a directory, a remote file
EntryList ==
    <<[scheme |-> "file", is_directory |-> FALSE, path |-> "north.jpg"],
      [scheme |-> "file", is_directory |-> FALSE, path |-> "south.jpg"],
      [scheme |-> "file", is_directory |-> FALSE, path |-> "bare.jpg"],
      [scheme |-> "file", is_directory |-> FALSE, path |-> "raw.crw"],
      [scheme |-> "file", is_directory |-> FALSE, path |-> "bad.jpg"],
      [scheme |-> "file", is_directory |-> FALSE, path |-> "far.jpg"],
      [scheme |-> "file", is_directory |-> FALSE, path |-> "half.jpg"],
      [scheme |-> "file", is_directory |-> TRUE, path |-> "photos"],
      [scheme |-> "sftp", is_directory |-> FALSE, path |-> "remote.jpg"]>>

\* the most property pages opened, and the most entries selected at once
MaxSessions == 2
MaxSelection == 3

RECURSIVE Ascending(_)
Ascending(S) ==
    IF S = {} THEN <<>>
    ELSE LET i == CHOOSE k \in S : \A j \in S : k <= j
         IN  <<EntryList[i]>> \o Ascending(S \ {i})

Selections ==
    {Ascending(S) : S \in {T \in SUBSET (1..Len(EntryList)) : Cardinality(T) \in 1..MaxSelection}}

\* where the user may drag a map to
DragPositions == {<<RNorm(48, 1, 7), RNeg(RNorm(2, 1, 2))>>}

\* str(x), the text written to the configuration file.  Python 2 keeps 12
\* significant digits; the text is kept as the float it was made from.
Str(x) == [str |-> x]

\* float(text) of a text of the configuration file, read at start-up only:
\* exact for the short decimals a start-up file of the model holds
Float(t) == t.str

\* the contents exifgpsproperty.ini may have when the process starts; "0.0"
\* is also what ConfigParser's defaults give when there is no file
StartConfigs ==
    {[latitude |-> Str(Zero), longitude |-> Str(Zero)],
     [latitude |-> Str(RInt(30)), longitude |-> Str(RNorm(40, 1, 2))]}

Configuration_load(file) == <<Float(file.latitude), Float(file.longitude)>>

Configuration_save(position) == [latitude |-> Str(position[1]), longitude |-> Str(position[2])]

----------------------------------------------------------------------------
(* PropertyPage and ExifGpsProperty *)

NoMeta == [file |-> "", lat |-> NoTag, lon |-> NoTag]

\* PropertyPage(): everything shown except the error label.  center is the
\* map's latitude and longitude, clicked and draw whether the button and
\* draw handlers are connected, shown whether the page was returned to
\* Nautilus.
PropertyPage ==
    [themap_visible |-> TRUE, error_visible |-> FALSE, buttons_visible |-> TRUE,
     btn_apply_sensitive |-> TRUE, center |-> <<Zero, Zero>>,
     markers |-> <<>>, clicked |-> FALSE, draw |-> FALSE, shown |-> FALSE,
     filenames |-> <<>>]

\* themap.set_center(lat, lon)
set_center(page, position) == [page EXCEPT !.center = position]

\* themap.image_add_with_alignment(lat, lon, icon, 0.5, 1.0)
image_add(page, position) == [page EXCEPT !.markers = Append(@, position)]

\* self.move_to(position) on the page self.elements refers to; position is
\* None when the call comes from the draw handler
move_to(page, position) ==
    IF position = None THEN set_center(page, page.center) ELSE set_center(page, position)

KeyError(tags) == tags.lat = NoTag \/ tags.lon = NoTag

\* load_image without line 197: a missing tag leaves self.original_position as it was
load_image_keeps(filename, page) ==
    LET tags == disk[filename]
        loaded == [file |-> filename, lat |-> tags.lat, lon |-> tags.lon]
        position == <<gps_str2float(tags.lat), gps_str2float(tags.lon)>>
    IN  IF KeyError(tags)
        THEN [meta |-> loaded,
              original |-> original_position,
              page |-> [page EXCEPT !.themap_visible = FALSE, !.buttons_visible = FALSE,
                                    !.error_visible = TRUE],
              raised |-> FALSE]
        ELSE [meta |-> loaded,
              original |-> position,
              page |-> move_to(image_add(page, position), position),
              raised |-> ~tags.writable]

\* self.load_image(filename) on a new page: the new self.meta,
\* self.original_position and page, and whether a TypeError left the method
\* (self.elements['btn_apply'] on an object that has no __getitem__)
load_image(filename, page) ==
    LET tags == disk[filename]
        loaded == [file |-> filename, lat |-> tags.lat, lon |-> tags.lon]
        position == <<gps_str2float(tags.lat), gps_str2float(tags.lon)>>
    IN  IF KeyError(tags)
        THEN [meta |-> loaded,
              original |-> <<Zero, Zero>>,
              page |-> [page EXCEPT !.themap_visible = FALSE, !.buttons_visible = FALSE,
                                    !.error_visible = TRUE],
              raised |-> FALSE]
        ELSE [meta |-> loaded,
              original |-> position,
              page |-> move_to(image_add(page, position), position),
              raised |-> ~tags.writable]

Sentinel == RInt(500)

\* the loop of load_images with "break" for "continue": a file without GPS
\* tags ends it
RECURSIVE load_images_loop_stops(_, _, _)
load_images_loop_stops(filenames, i, acc) ==
    IF i > Len(filenames) THEN acc
    ELSE LET tags == disk[filenames[i]]
             lat == gps_str2float(tags.lat)
             lon == gps_str2float(tags.lon)
         IN  IF KeyError(tags) THEN acc
             ELSE load_images_loop_stops(filenames, i + 1,
                      [page |-> image_add(acc.page, <<lat, lon>>),
                       found |-> TRUE,
                       minlat |-> RMin(acc.minlat, lat), maxlat |-> RMax(acc.maxlat, lat),
                       minlon |-> RMin(acc.minlon, lon), maxlon |-> RMax(acc.maxlon, lon)])

\* the loop of load_images over the filenames from index i on
RECURSIVE load_images_loop(_, _, _)
load_images_loop(filenames, i, acc) ==
    IF i > Len(filenames) THEN acc
    ELSE LET tags == disk[filenames[i]]
             lat == gps_str2float(tags.lat)
             lon == gps_str2float(tags.lon)
         IN  IF KeyError(tags) THEN load_images_loop(filenames, i + 1, acc)
             ELSE load_images_loop(filenames, i + 1,
                      [page |-> image_add(acc.page, <<lat, lon>>),
                       found |-> TRUE,
                       minlat |-> RMin(acc.minlat, lat), maxlat |-> RMax(acc.maxlat, lat),
                       minlon |-> RMin(acc.minlon, lon), maxlon |-> RMax(acc.maxlon, lon)])

load_images(filenames, page) ==
    LET r == load_images_loop(filenames, 1,
                 [page |-> page, found |-> FALSE,
                  minlat |-> Sentinel, maxlat |-> RNeg(Sentinel),
                  minlon |-> Sentinel, maxlon |-> RNeg(Sentinel)])
    IN  IF ~r.found
        THEN [r.page EXCEPT !.themap_visible = FALSE, !.error_visible = TRUE]
        ELSE set_center(r.page, <<RDivInt(RAdd(r.minlat, r.maxlat), 2),
                                   RDivInt(RAdd(r.minlon, r.maxlon), 2)>>)

\* the paths get_property_pages keeps: local files that are not directories
RECURSIVE CleanUris(_)
CleanUris(files) ==
    IF files = <<>> THEN <<>>
    ELSE IF Head(files).scheme # "file" \/ Head(files).is_directory
         THEN CleanUris(Tail(files))
         ELSE <<Head(files).path>> \o CleanUris(Tail(files))

Init ==
    /\ codec_op = "idle" /\ codec_text = <<>> /\ codec_value = Zero /\ codec_result = None
    /\ disk = InitialDisk
    /\ config_file \in StartConfigs
    /\ previous_position = Configuration_load(config_file)
    /\ meta = NoMeta
    /\ original_position = <<Zero, Zero>>
    /\ elements = 0
    /\ pages = <<>>

\* get_property_pages(files): Nautilus opens a property window on a selection
GetPropertyPages(files) ==
    LET filenames == CleanUris(files)
        new == [PropertyPage EXCEPT !.filenames = filenames]
    IN  /\ Len(pages) < MaxSessions
        /\ IF filenames = <<>>
           THEN UNCHANGED provider_vars
           ELSE /\ elements' = Len(pages) + 1
                /\ IF Len(filenames) > 1
                   THEN /\ pages' = Append(pages,
                               [load_images(filenames, [new EXCEPT !.buttons_visible = FALSE])
                                    EXCEPT !.draw = TRUE, !.shown = TRUE])
                        /\ UNCHANGED <<meta, original_position>>
                   ELSE LET r == load_image(filenames[1], [new EXCEPT !.clicked = TRUE])
                        IN  /\ meta' = r.meta
                            /\ original_position' = r.original
                            /\ pages' = Append(pages,
                                   IF r.raised THEN r.page
                                   ELSE [r.page EXCEPT !.draw = TRUE, !.shown = TRUE])
                /\ UNCHANGED <<disk, config_file, previous_position>>
        /\ UNCHANGED codec_vars

\* a button of page s can be pressed
Clickable(s) == pages[s].shown /\ pages[s].clicked /\ pages[s].buttons_visible

\* "Move to original position" pressed on page s
ClickOrigin(s) ==
    /\ Clickable(s)
    /\ pages' = [pages EXCEPT ![elements] = move_to(@, original_position)]
    /\ UNCHANGED <<disk, config_file, previous_position, meta, original_position, elements>>
    /\ UNCHANGED codec_vars

\* "Move to last position" pressed on page s
ClickLast(s) ==
    /\ Clickable(s)
    /\ pages' = [pages EXCEPT ![elements] = move_to(@, previous_position)]
    /\ UNCHANGED <<disk, config_file, previous_position, meta, original_position, elements>>
    /\ UNCHANGED codec_vars

\* "Apply" pressed on page s: save_image().  file_ok tells whether writing
\* the image succeeds; an image whose format Exiv2 cannot write is never
\* saved.
ClickApply(s, file_ok) ==
    LET lat == pages[elements].center[1]
        lon == pages[elements].center[2]
        written == [meta EXCEPT !.lat = gps_float2str(lat), !.lon = gps_float2str(lon)]
    IN  /\ Clickable(s) /\ pages[s].btn_apply_sensitive
        /\ meta' = written
        /\ IF file_ok /\ disk[meta.file].writable
           THEN /\ disk' = [disk EXCEPT ![meta.file].lat = written.lat,
                                        ![meta.file].lon = written.lon]
                /\ previous_position' = <<lat, lon>>
                /\ config_file' = Configuration_save(<<lat, lon>>)
           ELSE UNCHANGED <<disk, previous_position, config_file>>
        /\ UNCHANGED <<original_position, elements, pages>>
        /\ UNCHANGED codec_vars

\* the user drags the map of page s
DragMap(s, position) ==
    /\ pages[s].shown /\ pages[s].themap_visible
    /\ pages[s].center # position
    /\ pages' = [pages EXCEPT ![s].center = position]
    /\ UNCHANGED <<disk, config_file, previous_position, meta, original_position, elements>>
    /\ UNCHANGED codec_vars

\* the map of page s is drawn: its handler calls move_to(None)
Draw(s) ==
    /\ pages[s].shown /\ pages[s].themap_visible /\ pages[s].draw
    /\ pages' = [pages EXCEPT ![elements] = move_to(@, None)]
    /\ UNCHANGED <<disk, config_file, previous_position, meta, original_position, elements>>
    /\ UNCHANGED codec_vars

Next ==
    \/ \E files \in Selections : GetPropertyPages(files)
    \/ \E s \in 1..Len(pages) : ClickOrigin(s)
    \/ \E s \in 1..Len(pages) : ClickLast(s)
    \/ \E s \in 1..Len(pages), file_ok \in BOOLEAN : ClickApply(s, file_ok)
    \/ \E s \in 1..Len(pages), position \in DragPositions : DragMap(s, position)
    \/ \E s \in 1..Len(pages) : Draw(s)

Spec == Init /\ [][Next]_vars

----------------------------------------------------------------------------
(* The codec applied to one input *)

CodecInit ==
    /\ codec_op = "idle"
    /\ codec_result = None
    /\ \/ codec_text \in TextInputs /\ codec_value = Zero
       \/ codec_text = <<>> /\ codec_value \in ValueInputs
    /\ disk = InitialDisk
    /\ config_file = Configuration_save(<<Zero, Zero>>)
    /\ previous_position = <<Zero, Zero>>
    /\ meta = NoMeta
    /\ original_position = <<Zero, Zero>>
    /\ elements = 0
    /\ pages = <<>>

Decode ==
    /\ codec_op = "idle"
    /\ codec_op' = "decoded"
    /\ codec_result' = gps_str2float(codec_text)
    /\ UNCHANGED <<codec_text, codec_value>>
    /\ UNCHANGED provider_vars

Encode ==
    /\ codec_op = "idle"
    /\ codec_op' = "encoded"
    /\ codec_result' = gps_float2str(codec_value)
    /\ UNCHANGED <<codec_text, codec_value>>
    /\ UNCHANGED provider_vars

RoundTrip ==
    /\ codec_op = "idle"
    /\ codec_op' = "roundtrip"
    /\ codec_result' = gps_str2float(gps_float2str(codec_value))
    /\ UNCHANGED <<codec_text, codec_value>>
    /\ UNCHANGED provider_vars

CodecNext == Decode \/ Encode \/ RoundTrip

SpecCodec == CodecInit /\ [][CodecNext]_vars

----------------------------------------------------------------------------
(* Reading a text as the claims describe it: three pairs <int>/<int>       *)
(* separated by single spaces, an <int> being decimal digits with an       *)
(* optional leading minus sign.                                            *)

RECURSIVE Split(_, _)
Split(s, sep) ==
    IF \E i \in 1..Len(s) : s[i] = sep
    THEN LET i == CHOOSE k \in 1..Len(s) : s[k] = sep /\ \A j \in 1..(k - 1) : s[j] # sep
         IN  <<SubSeq(s, 1, i - 1)>> \o Split(SubSeq(s, i + 1, Len(s)), sep)
    ELSE <<s>>

IsIntText(t) ==
    LET body == IF t # <<>> /\ t[1] = "-" THEN Tail(t) ELSE t
    IN  body # <<>> /\ \A i \in 1..Len(body) : IsDigit(body[i])

IntOf(t) == IF t[1] = "-" THEN -DigitsVal(Tail(t)) ELSE DigitsVal(t)

\* <<deg_num, deg_den, min_num, min_den, sec_num, sec_den>>, or None
Fields(s) ==
    LET parts == Split(s, " ")
        pairs == [i \in 1..Len(parts) |-> Split(parts[i], "/")]
    IN  IF /\ Len(parts) = 3
           /\ \A i \in 1..3 : /\ Len(pairs[i]) = 2
                              /\ IsIntText(pairs[i][1])
                              /\ IsIntText(pairs[i][2])
        THEN <<IntOf(pairs[1][1]), IntOf(pairs[1][2]), IntOf(pairs[2][1]),
               IntOf(pairs[2][2]), IntOf(pairs[3][1]), IntOf(pairs[3][2])>>
        ELSE None

\* n/d as an exact number, d # 0
Ratio(n, d) == IF d < 0 THEN RNorm(0, -n, -d) ELSE RNorm(0, n, d)

\* 1/21600000 degree, a 6000th of a second of arc
Resolution == RDivInt(RInt(1), 3600 * 6000)

\* C1: for every text, gps_str2float returns deg_num/deg_den +
\* (min_num/min_den)/60 + (sec_num/sec_den)/3600 when the text has the shape
\* <int>/<int> <int>/<int> <int>/<int> with three non-zero denominators, and
\* exactly 0.0 for every other text.
C1_DecodeContract ==
    codec_op = "decoded" =>
        LET f == Fields(codec_text)
        IN  IF f # None /\ f[2] # 0 /\ f[4] # 0 /\ f[6] # 0
            THEN codec_result = RAdd(RAdd(Ratio(f[1], f[2]), RDivInt(Ratio(f[3], f[4]), 60)),
                                     RDivInt(Ratio(f[5], f[6]), 3600))
            ELSE codec_result = Zero

\* C2: for every value of either sign, gps_float2str returns the text
\* "D/1 M/1 S/6000" with D the value truncated toward zero,
\* M = truncate(value*60) mod 60 and S = truncate(|value|*3600*6000) mod
\* (60*6000), so S is never negative; the text for 0.0 is "0/1 0/1 0/6000".
C2_EncodeContract ==
    codec_op = "encoded" =>
        LET f == Fields(codec_result)
            v == codec_value
            a == RAbs(v)
            D == f[1]
            M == f[3]
            S == f[5]
            absD == IF D < 0 THEN -D ELSE D
            Q == Trunc(RMulInt(a, 60))
            lo == RAdd(RDivInt(RInt(Q), 60), RDivInt(RInt(S), 3600 * 6000))
        IN  /\ f # None
            /\ codec_result = Triple(<<D, M, S>>, <<1, 1, 6000>>)
            /\ RLeq(RInt(absD), a) /\ RLess(a, RInt(absD + 1))
            /\ (D < 0 => RIsNeg(v)) /\ (D > 0 => ~RIsNeg(v))
            /\ M \in 0..59 /\ (Trunc(RMulInt(v, 60)) - M) % 60 = 0
            /\ S \in 0..(60 * 6000 - 1)
            /\ RLeq(lo, a) /\ RLess(a, RAdd(lo, Resolution))
            /\ (v = Zero => codec_result =
                    <<"0", "/", "1", " ", "0", "/", "1", " ", "0", "/", "6", "0", "0", "0">>)

\* a negative value whose seconds numerator is not zero has been encoded
C2_Witness ==
    /\ codec_op = "encoded"
    /\ RIsNeg(codec_value)
    /\ Fields(codec_result) # None
    /\ Fields(codec_result)[5] > 0

AtBoundary(x) == RMulInt(x, 60).num = 0

InRange(x) == RLeq(RAbs(x), RInt(180))

\* C3: for every value in the coordinate range, negative values included,
\* that is not at an integer degree or minute boundary,
\* gps_str2float(gps_float2str(x)) differs from x by at most 1/21600000.
C3_RoundTrip ==
    (codec_op = "roundtrip" /\ InRange(codec_value) /\ ~AtBoundary(codec_value)) =>
        RLeq(RAbs(RSub(codec_result, codec_value)), Resolution)

\* the same for the values that are not negative
RoundTripOfPositive ==
    (codec_op = "roundtrip" /\ ~RIsNeg(codec_value)) =>
        RLeq(RAbs(RSub(codec_result, codec_value)), Resolution)

----------------------------------------------------------------------------
(* Sessions as the claims describe them: one per property page *)

\* the provider with at most one property page ever opened
SpecSolo == Init /\ [][Next /\ Len(pages') <= 1]_vars

Single(s) == Len(pages[s].filenames) = 1

MetadataFound(s) ==
    /\ Single(s) /\ pages[s].shown
    /\ pages[s].themap_visible /\ pages[s].buttons_visible /\ ~pages[s].error_visible

MetadataAbsent(s) ==
    /\ Single(s) /\ pages[s].shown
    /\ ~pages[s].themap_visible /\ ~pages[s].buttons_visible /\ pages[s].error_visible

\* this step opens a property page
Opens == Len(pages') = Len(pages) + 1

\* the position is a coordinate of the data model
InCoordinateRange(position) ==
    /\ RLeq(RAbs(position[1]), RInt(90))
    /\ RLeq(RAbs(position[2]), RInt(180))

MinOf(S) == CHOOSE x \in S : \A y \in S : RLeq(x, y)

MaxOf(S) == CHOOSE x \in S : \A y \in S : RLeq(y, x)

\* C4: opening a page on several files, each with a coordinate or without
\* GPS tags, skips the files without tags and still returns the page, puts
\* one marker per file with a coordinate, at that coordinate, and centers
\* the map on the middle of the least and greatest latitude and longitude
\* of exactly those files; when no file has a coordinate the map is hidden,
\* the error is shown and the map is not centered at all.
C4_Aggregation ==
    [][(Opens /\ Len(pages'[Len(pages')].filenames) > 1) =>
        LET p == pages'[Len(pages')]
            names == p.filenames
            yielding == {i \in 1..Len(names) : ~KeyError(disk[names[i]])}
            rank(i) == Cardinality({j \in yielding : j <= i})
            lats == {p.markers[k][1] : k \in 1..Len(p.markers)}
            lons == {p.markers[k][2] : k \in 1..Len(p.markers)}
        IN  /\ Len(p.markers) = Cardinality(yielding)
            /\ \A i \in yielding :
                    p.markers[rank(i)] = <<gps_str2float(disk[names[i]].lat),
                                           gps_str2float(disk[names[i]].lon)>>
            /\ (\A k \in 1..Len(p.markers) : InCoordinateRange(p.markers[k])) =>
                    /\ p.shown /\ p.draw
                    /\ IF yielding = {}
                       THEN /\ ~p.themap_visible /\ p.error_visible
                            /\ p.center = PropertyPage.center
                       ELSE /\ p.themap_visible /\ ~p.error_visible
                            /\ p.center = <<RDivInt(RAdd(MinOf(lats), MaxOf(lats)), 2),
                                            RDivInt(RAdd(MinOf(lons), MaxOf(lons)), 2)>>
      ]_vars

\* three files of which the second lacks GPS tags were opened together: two
\* markers, and the map centered between the two coordinates
C4_Witness ==
    \E s \in 1..Len(pages) :
        /\ pages[s].filenames = <<"north.jpg", "bare.jpg", "bad.jpg">>
        /\ Len(pages[s].markers) = 2
        /\ pages[s].shown
        /\ pages[s].center = <<RInt(5), RInt(5)>>

\* C5: a page opened on one file that has GPS tags but whose format cannot
\* be written finishes loading in MetadataFound with Apply disabled, and
\* while the provider holds such a file no step writes its metadata or
\* changes the last used position, in memory or in the configuration file.
C5_WriteUnsupported ==
    [][/\ (Opens /\ Len(pages'[Len(pages')].filenames) = 1) =>
            LET p == pages'[Len(pages')]
                tags == disk[p.filenames[1]]
            IN  (~KeyError(tags) /\ ~tags.writable) =>
                    /\ p.shown /\ p.draw
                    /\ p.themap_visible /\ p.buttons_visible /\ ~p.error_visible
                    /\ ~p.btn_apply_sensitive
       /\ (~Opens /\ meta.file # "" /\ ~disk[meta.file].writable) =>
            /\ meta' = meta
            /\ previous_position' = previous_position
            /\ config_file' = config_file
      ]_vars

\* C6: a page opened on one file that lacks the latitude or the longitude
\* tag finishes loading in MetadataAbsent (error shown, map and buttons
\* hidden), and from then on no user action writes that file's metadata or
\* saves that file; no button of that page can be pressed, so the page
\* never changes the last used position either.
C6_AbsentNeverWritten ==
    [][/\ (Opens /\ Len(pages'[Len(pages')].filenames) = 1) =>
            LET p == pages'[Len(pages')]
            IN  KeyError(disk[p.filenames[1]]) =>
                    /\ p.shown
                    /\ ~p.themap_visible /\ ~p.buttons_visible /\ p.error_visible
       /\ \A s \in 1..Len(pages) :
            MetadataAbsent(s) =>
                LET f == pages[s].filenames[1]
                IN  /\ ~Clickable(s)
                    /\ disk'[f] = disk[f]
                    /\ (meta.file = f /\ ~Opens) => meta' = meta
      ]_vars

\* the text is one that gps_str2float cannot decode: not three pairs of
\* unsigned numbers, or a zero denominator
FailsToParse(t) ==
    LET f == Fields(t)
    IN  \/ f = None
        \/ \E i \in 1..Len(t) : t[i] = "-"
        \/ f[2] = 0 \/ f[4] = 0 \/ f[6] = 0

\* the value the claims give a tag text
ValueOf(t) ==
    LET f == Fields(t)
    IN  RAdd(RAdd(Ratio(f[1], f[2]), RDivInt(Ratio(f[3], f[4]), 60)),
             RDivInt(Ratio(f[5], f[6]), 3600))

C8_Apply ==
    [][\A s \in 1..Len(pages) :
        /\ \A file_ok \in BOOLEAN :
            (MetadataFound(s) /\ ClickApply(s, file_ok)) =>
                LET f == pages[s].filenames[1]
                    position == pages[s].center
                IN  IF file_ok /\ disk[f].writable
                    THEN /\ disk'[f].lat = gps_float2str(position[1])
                         /\ disk'[f].lon = gps_float2str(position[2])
                         /\ previous_position' = position
                         /\ config_file' = Configuration_save(position)
                    ELSE /\ disk' = disk
                         /\ previous_position' = previous_position
                         /\ config_file' = config_file
        /\ (MetadataFound(s) /\ ClickLast(s)) => pages'[s].center = previous_position
      ]_vars

\* the position a page in MetadataFound was opened at: its only marker
OriginalOf(s) == pages[s].markers[1]

\* C9: on a page in MetadataFound, "Move to original position" sets the
\* page's map to the position read from its file, "Move to last position"
\* sets it to the last used position, and a draw leaves the map's position
\* as it is; none of them changes original_position, the last used position
\* or any file's metadata.
C9_MoveTo ==
    [][\A s \in 1..Len(pages) :
        MetadataFound(s) =>
            /\ ClickOrigin(s) => pages'[s].center = OriginalOf(s)
            /\ ClickLast(s) => pages'[s].center = previous_position
            /\ Draw(s) => pages'[s].center = pages[s].center
            /\ (ClickOrigin(s) \/ ClickLast(s) \/ Draw(s)) =>
                    UNCHANGED <<original_position, previous_position, config_file, meta, disk>>
      ]_vars

\* C10: two pages opened one after the other share nothing but the last
\* used position: a button pressed or a draw on one page leaves the map of
\* every other page alone and writes no file but that page's own.
C10_Isolation ==
    [][\A s \in 1..Len(pages) :
        (\/ ClickOrigin(s) \/ ClickLast(s) \/ Draw(s)
         \/ \E file_ok \in BOOLEAN : ClickApply(s, file_ok)) =>
            /\ \A t \in 1..Len(pages) : t # s => pages'[t] = pages[t]
            /\ \A f \in FileNames : f \notin {pages[s].filenames[i] : i \in 1..Len(pages[s].filenames)}
                                        => disk'[f] = disk[f]
      ]_vars

====
